---- MODULE Spec2Model ----
(***************************************************************************)
(* A model of the TimeSheet_AI front end.                                  *)
(*                                                                         *)
(*   - the question form (src/unnamed/part_000): four pieces of React      *)
(*     state and the async handler handleSubmit, which suspends at         *)
(*     `await fetch(...)` and at `await response.json()`;                  *)
(*   - the chat widget adapters ChatBot.tsx and ChatBot_v1.tsx (its first  *)
(*     component): two interceptors that rewrite the widget's request and  *)
(*     the backend's response and append to module-level lists.            *)
(*                                                                         *)
(* src/unnamed/part_001 holds the two versions of App.tsx: the page mounts *)
(* exactly one of the components, so each has a specification of its own.  *)
(***************************************************************************)
EXTENDS Integers, Sequences, FiniteSets, TLC

VARIABLES
    \* ---- question form: React state of App (part_000:9-12)
    question,          \* string, as a sequence of characters
    analysisResult,    \* <<>> for null, <<data>> for a stored AnalysisResult
    loading,           \* boolean
    error,             \* <<>> for null, <<message>> for a string
    \* ---- question form: the running handleSubmit executions and the network
    pc,                \* pc[i]: where the i-th handleSubmit execution stands
    posts,             \* the POSTs handed to fetch, in order
    submitted,         \* the question state at each submit event, in order
    lastEvent,         \* the step that was taken last
    lastResponse,      \* <<>> or <<response>>: the response fetch resolved with last
    \* ---- chat screen: module-level state of the mounted ChatBot module
    mounted,           \* which module App imports: "ChatBot" or "ChatBot_v1"
    currentChatDetail, \* the transcript
    chatHistor_LLM,    \* the role/content history
    newRecord,         \* the record of the current question/answer pair
    lastCall           \* the last interceptor call: its argument and what it returned

formVars == <<question, analysisResult, loading, error, pc, posts, submitted,
              lastEvent, lastResponse>>
chatVars == <<mounted, currentChatDetail, chatHistor_LLM, newRecord, lastCall>>
vars == <<formVars, chatVars>>

\* ------------------------------------------------------------------ bounds

\* The number of submit events of the question form that are explored.
MaxSubmits == 3

\* The number of entries of chatHistor_LLM (ChatBot.tsx) that are explored: more
\* than the ten entries the history window keeps.
MaxHist == 11

\* The number of entries of the transcript of ChatBot_v1.tsx that are explored.
MaxTranscript == 3

Min(a, b) == IF a < b THEN a ELSE b
Max(a, b) == IF a > b THEN a ELSE b

\* ========================================================================
\*                              QUESTION FORM
\* ========================================================================

\* Values the user can type into the input (the empty string included). The
\* characters that JSON.stringify has to escape are among them.
Questions == { <<"h", "i">>, <<"a", "\"">>, <<"\\">> }

\* JSON.stringify of one character of a string value.
JsonEscapeChar(c) ==
    IF c = "\"" THEN <<"\\", "\"">>
    ELSE IF c = "\\" THEN <<"\\", "\\">>
    ELSE <<c>>

RECURSIVE JsonEscape(_)
JsonEscape(s) ==
    IF s = <<>> THEN <<>>
    ELSE JsonEscapeChar(Head(s)) \o JsonEscape(Tail(s))

\* The bug of building the body by hand: the question is pasted between the
\* quotes as it is.
JSONstringify_Unescaped(q) == <<"{\"question\":\"">> \o q \o <<"\"}">>

\* JSON.stringify({ question }): the text {"question":"<escaped>"}; the fixed
\* prefix {"question":" is kept as one token.
JSONstringify(q) == <<"{\"question\":\"">> \o JsonEscape(q) \o <<"\"}">>

\* The request handed to fetch (part_000:20-26).
FetchRequest(q) ==
    [ url    |-> "http://localhost:8000/timesheetanalyze",
      method |-> "POST",
      body   |-> JSONstringify(q) ]

\* What fetch can resolve with: a status code and the status text of the
\* response (the text is empty under HTTP/2).
Responses ==
    { [status |-> 200, statusText |-> "OK"],
      [status |-> 404, statusText |-> "Not Found"],
      [status |-> 500, statusText |-> "Internal Server Error"],
      [status |-> 500, statusText |-> ""] }

\* Response.ok
ResponseOk(r) == r.status >= 200 /\ r.status <= 299

\* What response.json() can resolve with.
Bodies == { [result |-> "r1"], [result |-> "r2"] }

\* What a rejected promise can carry into the catch block: an Error with a
\* message (fetch's TypeError, json()'s SyntaxError) or some other value.
FetchRejections ==
    { [isError |-> TRUE,  message |-> "Failed to fetch"],
      [isError |-> FALSE, message |-> ""] }
JsonRejections ==
    { [isError |-> TRUE,  message |-> "Unexpected end of JSON input"] }

\* The bug of leaving the status code out of the message.
HttpErrorMessage_NoStatus(r) == "Error: " \o r.statusText

\* The message built at part_000:29.
HttpErrorMessage(r) == "Error: " \o ToString(r.status) \o " " \o r.statusText

\* The catch block's argument of setError (part_000:35).
CaughtMessage(err) == IF err.isError THEN err.message ELSE "Something went wrong"

\* The bug of a submit button that is never disabled.
SubmitEnabled_Always == TRUE

\* The submit button is rendered with disabled={loading} (part_000:53): while
\* it is disabled neither a click nor an implicit submission (Enter in the
\* input) fires the form's submit event. React commits the render that
\* follows a handler's state updates before the next event is dispatched, so
\* the attribute follows the state with no step in between.
SubmitEnabled == ~loading

\* The input is `required` (part_000:51): an empty value blocks the submit.
InputValid == question # <<>>

\* The page with the form mounts no chat module.
ChatIdle ==
    /\ mounted = "none"
    /\ currentChatDetail = <<>>
    /\ chatHistor_LLM = <<>>
    /\ newRecord = <<>>
    /\ lastCall = [op |-> "none"]

FormInit ==
    /\ ChatIdle
    /\ question = <<>>
    /\ analysisResult = <<>>
    /\ loading = FALSE
    /\ error = <<>>
    /\ pc = <<>>
    /\ posts = <<>>
    /\ submitted = <<>>
    /\ lastEvent = "init"
    /\ lastResponse = <<>>

\* onChange of the input (part_000:50); the input is never disabled.
onChange(v) ==
    /\ v # question
    /\ question' = v
    /\ lastEvent' = "change"
    /\ UNCHANGED <<analysisResult, loading, error, pc, posts, submitted, lastResponse>>
    /\ UNCHANGED chatVars

\* The bug of a submit that also clears the stored result.
handleSubmit_ClearsResult ==
    /\ SubmitEnabled
    /\ InputValid
    /\ Len(posts) < MaxSubmits
    /\ loading' = TRUE
    /\ error' = <<>>
    /\ analysisResult' = <<>>
    /\ posts' = Append(posts, FetchRequest(question))
    /\ pc' = Append(pc, "awaitFetch")
    /\ submitted' = Append(submitted, question)
    /\ lastEvent' = "submit"
    /\ UNCHANGED <<question, lastResponse>>
    /\ UNCHANGED chatVars

\* handleSubmit up to its first await (part_000:14-26): setLoading(true),
\* setError(null), and the call of fetch with the question of this render.
handleSubmit ==
    /\ SubmitEnabled
    /\ InputValid
    /\ Len(posts) < MaxSubmits
    /\ loading' = TRUE
    /\ error' = <<>>
    /\ posts' = Append(posts, FetchRequest(question))
    /\ pc' = Append(pc, "awaitFetch")
    /\ submitted' = Append(submitted, question)
    /\ lastEvent' = "submit"
    /\ UNCHANGED <<question, analysisResult, lastResponse>>
    /\ UNCHANGED chatVars

\* fetch rejects (network failure): catch, then finally (part_000:34-38).
fetchRejects(i, err) ==
    /\ pc[i] = "awaitFetch"
    /\ error' = <<CaughtMessage(err)>>
    /\ loading' = FALSE
    /\ pc' = [pc EXCEPT ![i] = "settled"]
    /\ lastEvent' = "network_error"
    /\ UNCHANGED <<question, analysisResult, posts, submitted, lastResponse>>
    /\ UNCHANGED chatVars

\* fetch resolves with a non-2xx response: the throw at part_000:28-30, then
\* catch and finally.
fetchResolvesNotOk(i, r) ==
    /\ pc[i] = "awaitFetch"
    /\ ~ResponseOk(r)
    /\ error' = <<CaughtMessage([isError |-> TRUE, message |-> HttpErrorMessage(r)])>>
    /\ loading' = FALSE
    /\ pc' = [pc EXCEPT ![i] = "settled"]
    /\ lastEvent' = "http_error"
    /\ lastResponse' = <<r>>
    /\ UNCHANGED <<question, analysisResult, posts, submitted>>
    /\ UNCHANGED chatVars

\* fetch resolves with a 2xx response: on to `await response.json()`.
fetchResolvesOk(i, r) ==
    /\ pc[i] = "awaitFetch"
    /\ ResponseOk(r)
    /\ pc' = [pc EXCEPT ![i] = "awaitJson"]
    /\ lastEvent' = "fetch_ok"
    /\ lastResponse' = <<r>>
    /\ UNCHANGED <<question, analysisResult, loading, error, posts, submitted>>
    /\ UNCHANGED chatVars

\* response.json() resolves: setAnalysisResult(data), then finally.
jsonResolves(i, data) ==
    /\ pc[i] = "awaitJson"
    /\ analysisResult' = <<data>>
    /\ loading' = FALSE
    /\ pc' = [pc EXCEPT ![i] = "settled"]
    /\ lastEvent' = "success"
    /\ UNCHANGED <<question, error, posts, submitted, lastResponse>>
    /\ UNCHANGED chatVars

\* The bug of clearing the loading flag at the end of the try block instead
\* of in a finally block: a rejection leaves it set.
jsonRejects_NoFinally(i, err) ==
    /\ pc[i] = "awaitJson"
    /\ error' = <<CaughtMessage(err)>>
    /\ pc' = [pc EXCEPT ![i] = "settled"]
    /\ lastEvent' = "parse_error"
    /\ UNCHANGED <<question, analysisResult, loading, posts, submitted, lastResponse>>
    /\ UNCHANGED chatVars

\* response.json() rejects (the body is not JSON): catch, then finally.
jsonRejects(i, err) ==
    /\ pc[i] = "awaitJson"
    /\ error' = <<CaughtMessage(err)>>
    /\ loading' = FALSE
    /\ pc' = [pc EXCEPT ![i] = "settled"]
    /\ lastEvent' = "parse_error"
    /\ UNCHANGED <<question, analysisResult, posts, submitted, lastResponse>>
    /\ UNCHANGED chatVars

\* The settling steps of the i-th handleSubmit execution.
Settle(i) ==
    \/ \E err \in FetchRejections : fetchRejects(i, err)
    \/ \E r \in Responses : fetchResolvesNotOk(i, r)
    \/ \E r \in Responses : fetchResolvesOk(i, r)
    \/ \E data \in Bodies : jsonResolves(i, data)
    \/ \E err \in JsonRejections : jsonRejects(i, err)

FormNext ==
    \/ \E v \in Questions \cup {<<>>} : onChange(v)
    \/ handleSubmit
    \/ \E i \in DOMAIN pc, err \in FetchRejections : fetchRejects(i, err)
    \/ \E i \in DOMAIN pc, r \in Responses : fetchResolvesNotOk(i, r)
    \/ \E i \in DOMAIN pc, r \in Responses : fetchResolvesOk(i, r)
    \/ \E i \in DOMAIN pc, data \in Bodies : jsonResolves(i, data)
    \/ \E i \in DOMAIN pc, err \in JsonRejections : jsonRejects(i, err)


FormSpec == FormInit /\ [][FormNext]_vars

\* Every request settles: the promise of fetch, and then the promise of
\* response.json(), is resolved or rejected.
FormFairSpec == FormSpec /\ WF_vars(\E i \in DOMAIN pc : Settle(i))

\* ========================================================================
\*                               CHAT SCREEN
\* ========================================================================

\* The messages the user can send.
Texts == { "q1", "q2" }

\* The request the widget hands to requestInterceptor: the message envelope
\* { messages: [{ role: "user", text }] } that the interceptors read.
WidgetRequest(t) == [body |-> [messages |-> <<[role |-> "user", text |-> t]>>]]

\* ---- JavaScript values, as far as the interceptors look at them
Undefined == [t |-> "undefined", s |-> "", n |-> 0, b |-> FALSE]
Null == [t |-> "null", s |-> "", n |-> 0, b |-> FALSE]
Str(x) == [t |-> "string", s |-> x, n |-> 0, b |-> FALSE]
Num(x) == [t |-> "number", s |-> "", n |-> x, b |-> FALSE]
Bool(x) == [t |-> "boolean", s |-> "", n |-> 0, b |-> x]

\* A value with its `raw` property: an object holds one or none (Undefined);
\* reading .raw of a string, a number or a boolean gives undefined.
Obj(raw) == [t |-> "object", s |-> "", n |-> 0, b |-> FALSE, raw |-> raw]
Prim(v) == [t |-> v.t, s |-> v.s, n |-> v.n, b |-> v.b, raw |-> Undefined]

\* The bug of testing `result == null` where the code tests `!result`.
Truthy_NotNullish(v) == v.t \notin {"undefined", "null"}

\* JavaScript's ToBoolean: what `!v` negates.
Truthy(v) ==
    CASE v.t = "undefined" -> FALSE
      [] v.t = "null" -> FALSE
      [] v.t = "boolean" -> v.b
      [] v.t = "number" -> v.n # 0
      [] v.t = "string" -> v.s # ""
      [] OTHER -> TRUE

\* JavaScript's ToString of a primitive, as a template literal applies it.
ToStr(v) ==
    CASE v.t = "undefined" -> "undefined"
      [] v.t = "null" -> "null"
      [] v.t = "boolean" -> (IF v.b THEN "true" ELSE "false")
      [] v.t = "number" -> ToString(v.n)
      [] OTHER -> v.s

\* obj[key] = value on a plain object.
SetProp(obj, key, value) ==
    [k \in (DOMAIN obj) \cup {key} |-> IF k = key THEN value ELSE obj[k]]

\* The bug of adding at the front (unshift) where the code pushes.
Push_Unshift(arr, x) == <<x>> \o arr

\* Array.prototype.push
Push(arr, x) == Append(arr, x)

\* The bug of slice(0, 10): the first ten entries instead of the last ten.
Slice_FromStart(arr, start) == SubSeq(arr, 1, Min(0 - start, Len(arr)))

\* Array.prototype.slice(start) with one argument: a negative start counts
\* from the end, and is clamped to the array.
Slice(arr, start) ==
    LET n == Len(arr)
        from == IF start < 0 THEN Max(n + start, 0) ELSE Min(start, n)
    IN  SubSeq(arr, from + 1, n)

\* The argument of slice at ChatBot.tsx:27.
SliceStart == -10

\* new Date().toString(): the clock is read, its value used nowhere else.
Now == "Mon Nov 02 2026 12:00:00 GMT+0000"

\* ------------------------------------------------------------------------
\* ChatBot.tsx: the adapter that attaches the history
\* ------------------------------------------------------------------------

\* The backend's responses { text, answer } (spec section 6).
ChatResponses == { [text |-> "t1", answer |-> "a1"] }

\* The page with a chat screen does not mount the form.
FormIdle ==
    /\ question = <<>>
    /\ analysisResult = <<>>
    /\ loading = FALSE
    /\ error = <<>>
    /\ pc = <<>>
    /\ posts = <<>>
    /\ submitted = <<>>
    /\ lastEvent = "init"
    /\ lastResponse = <<>>

\* requestInterceptor of ChatBot.tsx (lines 12-34).
requestInterceptor(request) ==
    LET text == request.body.messages[1].text
        currentMessages == [role |-> "user", html |-> text]
        currentMessages_LLM == [role |-> "user", content |-> text]
        history_LLM == Push(chatHistor_LLM, currentMessages_LLM)
        lastFiveMessages == Slice(history_LLM, SliceStart)
        rewritten == [request EXCEPT !.body =
                         [content |-> text, history |-> lastFiveMessages]]
    IN  /\ mounted = "ChatBot"
        /\ Len(chatHistor_LLM) < MaxHist
        /\ newRecord' = SetProp(<<>>, "questions", Str(text))
        /\ currentChatDetail' = Push(currentChatDetail, currentMessages)
        /\ chatHistor_LLM' = history_LLM
        /\ lastCall' = [op |-> "requestInterceptor", arg |-> request, ret |-> rewritten]
        /\ UNCHANGED mounted
        /\ UNCHANGED formVars

\* responseInterceptor of ChatBot.tsx (lines 35-64).
responseInterceptor(response) ==
    LET formattedResponse == [html |-> response.text]
        currentMessages == [role |-> "ai", html |-> response.text]
        currentMessages_LLM == [role |-> "assistant", content |-> response.answer]
    IN  /\ mounted = "ChatBot"
        /\ Len(chatHistor_LLM) < MaxHist
        /\ currentChatDetail' = Push(currentChatDetail, currentMessages)
        /\ chatHistor_LLM' = Push(chatHistor_LLM, currentMessages_LLM)
        /\ newRecord' = SetProp(SetProp(newRecord, "Answer", Str(response.answer)),
                                "dateAndTime", Str(Now))
        /\ lastCall' = [op |-> "responseInterceptor", arg |-> response,
                        ret |-> formattedResponse]
        /\ UNCHANGED mounted
        /\ UNCHANGED formVars

HistInit ==
    /\ mounted = "ChatBot"
    /\ currentChatDetail = <<>>
    /\ chatHistor_LLM = <<>>
    /\ newRecord = <<>>
    /\ lastCall = [op |-> "none"]
    /\ FormIdle

HistNext ==
    \/ \E t \in Texts : requestInterceptor(WidgetRequest(t))
    \/ \E r \in ChatResponses : responseInterceptor(r)

HistSpec == HistInit /\ [][HistNext]_vars

\* ------------------------------------------------------------------------
\* ChatBot_v1.tsx (lines 1-85): the adapter that uses formatResponse
\* ------------------------------------------------------------------------

\* The backend's responses: `result` missing, present with a falsy value,
\* an object with a `raw` property (a string or a number) or without one, or
\* a non-empty string. None carries an `answer`.
Responses_v1 ==
    { [has_result |-> FALSE, result |-> Prim(Undefined)],
      [has_result |-> TRUE, result |-> Prim(Null)],
      [has_result |-> TRUE, result |-> Prim(Str(""))],
      [has_result |-> TRUE, result |-> Prim(Num(0))],
      [has_result |-> TRUE, result |-> Prim(Bool(FALSE))],
      [has_result |-> TRUE, result |-> Obj(Str("X"))],
      [has_result |-> TRUE, result |-> Obj(Str("Total hours: 40"))],
      [has_result |-> TRUE, result |-> Obj(Num(42))],
      [has_result |-> TRUE, result |-> Obj(Undefined)],
      [has_result |-> TRUE, result |-> Prim(Str("done"))] }

\* response.result: undefined when the property is missing.
GetResult(response) ==
    IF response.has_result THEN response.result ELSE Prim(Undefined)

\* The bug of returning the raw report without its <div>.
formatResponse_NoDiv(response) ==
    IF ~Truthy(GetResult(response))
    THEN "No result received from the server."
    ELSE ToStr(GetResult(response).raw)

\* formatResponse (ChatBot_v1.tsx:49-62). The template literal starts with a
\* line break and the indentation of its second line, and ends with a line
\* break and the indentation of its closing backquote.
formatResponse(response) ==
    IF ~Truthy(GetResult(response))
    THEN "No result received from the server."
    ELSE LET reportSections == GetResult(response).raw
         IN  "\n            <div>" \o ToStr(reportSections) \o "</div>\n        "

V1Init ==
    /\ mounted = "ChatBot_v1"
    /\ currentChatDetail = <<>>
    /\ chatHistor_LLM = <<>>
    /\ newRecord = <<>>
    /\ lastCall = [op |-> "none"]
    /\ FormIdle

\* requestInterceptor of ChatBot_v1.tsx (lines 11-27).
requestInterceptor_v1(request) ==
    LET text == request.body.messages[1].text
        currentMessages == [role |-> "user", html |-> text]
        rewritten == [request EXCEPT !.body = [question |-> text]]
    IN  /\ mounted = "ChatBot_v1"
        /\ Len(currentChatDetail) < MaxTranscript
        /\ newRecord' = SetProp(<<>>, "questions", Str(text))
        /\ currentChatDetail' = Push(currentChatDetail, currentMessages)
        /\ lastCall' = [op |-> "requestInterceptor", arg |-> request, ret |-> rewritten]
        /\ UNCHANGED <<mounted, chatHistor_LLM>>
        /\ UNCHANGED formVars

\* responseInterceptor of ChatBot_v1.tsx (lines 29-47).
responseInterceptor_v1(response) ==
    LET formattedResponse == formatResponse(response)
        currentMessages == [role |-> "ai", html |-> formattedResponse]
    IN  /\ mounted = "ChatBot_v1"
        /\ Len(currentChatDetail) < MaxTranscript
        /\ currentChatDetail' = Push(currentChatDetail, currentMessages)
        /\ newRecord' = SetProp(SetProp(newRecord, "Answer", Undefined),
                                "dateAndTime", Str(Now))
        /\ lastCall' = [op |-> "responseInterceptor", arg |-> response,
                        ret |-> [html |-> formattedResponse]]
        /\ UNCHANGED <<mounted, chatHistor_LLM>>
        /\ UNCHANGED formVars

V1Next ==
    \/ \E t \in Texts : requestInterceptor_v1(WidgetRequest(t))
    \/ \E r \in Responses_v1 : responseInterceptor_v1(r)

V1Spec == V1Init /\ [][V1Next]_vars

\* ------------------------------------------------------------------------
\* Either chat module, as App.tsx imports one or the other (part_001:4, 20)
\* ------------------------------------------------------------------------

ChatEitherInit ==
    /\ mounted \in {"ChatBot", "ChatBot_v1"}
    /\ currentChatDetail = <<>>
    /\ chatHistor_LLM = <<>>
    /\ newRecord = <<>>
    /\ lastCall = [op |-> "none"]
    /\ FormIdle

ChatNext ==
    \/ \E t \in Texts : requestInterceptor(WidgetRequest(t))
    \/ \E r \in ChatResponses : responseInterceptor(r)
    \/ \E t \in Texts : requestInterceptor_v1(WidgetRequest(t))
    \/ \E r \in Responses_v1 : responseInterceptor_v1(r)

ChatSpec == ChatEitherInit /\ [][ChatNext]_vars

\* ========================================================================
\*                         PROPERTIES: QUESTION FORM
\* ========================================================================

\* The handleSubmit executions whose request has not settled.
InFlight == { i \in DOMAIN pc : pc[i] # "settled" }

SettleEvents == { "network_error", "http_error", "parse_error", "success" }

\* C1: the loading flag is true exactly while a submitted request has not
\* settled: false before the first submit, true from the submit on (the POST
\* is in flight only with loading set), false again after every kind of
\* settling; and, the request settling, loading always becomes false again.
C1_LoadingWhileInFlight ==
    /\ [](loading <=> InFlight # {})
    /\ [](posts = <<>> => ~loading)
    /\ [][lastEvent' = "submit" => loading']_vars
    /\ [][lastEvent' \in SettleEvents => ~loading']_vars
    /\ (loading ~> ~loading)

\* A second submission has gone through a 2xx response whose body did not
\* parse, and loading is false again.
C1_Witness ==
    /\ Len(pc) = 2
    /\ lastEvent = "parse_error"
    /\ InFlight = {}
    /\ ~loading

\* C3: when a submission's response has a non-2xx status, the error state
\* after settling is "Error: <status> <statusText>" of that response (for a
\* 500 it contains "500"), and the stored result is left as it was.
C3_HttpErrorMessage ==
    [][lastEvent' = "http_error" =>
          LET r == lastResponse'[1]
          IN  /\ ~(r.status \in 200..299)
              /\ error' = <<"Error: " \o ToString(r.status) \o " " \o r.statusText>>
              /\ r.status = 500 =>
                    error' \in { <<"Error: 500 Internal Server Error">>, <<"Error: 500 ">> }
              /\ analysisResult' = analysisResult]_vars

\* A 500 response has settled a submission made while a result was stored.
C3_Witness ==
    /\ lastEvent = "http_error"
    /\ lastResponse = <<[status |-> 500, statusText |-> "Internal Server Error"]>>
    /\ error = <<"Error: 500 Internal Server Error">>
    /\ analysisResult # <<>>

\* Reading a JSON string value back: a backslash stands for the character
\* that follows it.
RECURSIVE JsonUnescape(_)
JsonUnescape(s) ==
    IF s = <<>> THEN <<>>
    ELSE IF Head(s) = "\\" /\ Len(s) >= 2
         THEN <<s[2]>> \o JsonUnescape(SubSeq(s, 3, Len(s)))
         ELSE <<Head(s)>> \o JsonUnescape(Tail(s))

\* The positions of a JSON string value's text at which a quote would end it.
RECURSIVE BareQuotes(_)
BareQuotes(s) ==
    IF s = <<>> THEN 0
    ELSE IF Head(s) = "\\" /\ Len(s) >= 2 THEN BareQuotes(SubSeq(s, 3, Len(s)))
    ELSE (IF Head(s) \in {"\"", "\\"} THEN 1 ELSE 0) + BareQuotes(Tail(s))

\* The body is the JSON text of an object with the one key `question`, whose
\* value is the string q.
CarriesQuestion(body, q) ==
    /\ Len(body) >= 2
    /\ body[1] = "{\"question\":\""
    /\ body[Len(body)] = "\"}"
    /\ BareQuotes(SubSeq(body, 2, Len(body) - 1)) = 0
    /\ JsonUnescape(SubSeq(body, 2, Len(body) - 1)) = q

\* C4: every submit of a non-empty question issues exactly one POST, whose
\* JSON body carries under `question` the question held in state at that
\* submit; a POST is issued by a submit only, one at a time.
C4_OnePostPerSubmit ==
    /\ [](/\ Len(posts) = Len(submitted)
          /\ \A i \in DOMAIN posts :
                /\ submitted[i] # <<>>
                /\ posts[i].method = "POST"
                /\ CarriesQuestion(posts[i].body, submitted[i]))
    /\ [][posts' # posts =>
             /\ lastEvent' = "submit"
             /\ posts' = Append(posts, posts'[Len(posts')])
             /\ submitted'[Len(submitted')] = question]_vars

\* Two submits were made; the second question holds a character that
\* JSON.stringify escapes, and the input was edited after the submit.
C4_Witness ==
    /\ Len(posts) = 2
    /\ submitted[1] = <<"h", "i">>
    /\ submitted[2] = <<"a", "\"">>
    /\ posts[2].body = <<"{\"question\":\"", "a", "\\", "\"", "\"}">>
    /\ question # submitted[2]
    /\ lastEvent = "change"

\* C5: at most one request is in flight: no submit starts while the previous
\* one has not settled, so the executions of handleSubmit run one after the
\* other and only the latest one can be unsettled.
C5_OneInFlight ==
    /\ Cardinality(InFlight) <= 1
    /\ \A i \in InFlight : i = Len(pc)
    /\ Len(pc) = Len(posts)
    /\ (lastEvent = "submit" => InFlight = {Len(pc)})

\* A third submit is in flight, after two that settled.
C5_Witness ==
    /\ Len(pc) = 3
    /\ InFlight = {3}
    /\ pc[3] = "awaitJson"

\* C10: a failed submission leaves the stored result as it was, and a submit
\* clears the error and never the result: only a successful response
\* replaces the result.
C10_ResultKeptOnFailure ==
    [][/\ lastEvent' # "success" => analysisResult' = analysisResult
       /\ lastEvent' = "submit" => error' = <<>>
       /\ lastEvent' \in {"network_error", "http_error", "parse_error"} => error' # <<>>
       /\ lastEvent' = "success" => analysisResult' # <<>> /\ error' = error]_vars

\* After a success and then a failure, the earlier result and the new error
\* message are held at once.
C10_Witness ==
    /\ Len(pc) = 2
    /\ pc = <<"settled", "settled">>
    /\ lastEvent = "http_error"
    /\ analysisResult = <<[result |-> "r1"]>>
    /\ error = <<"Error: 404 Not Found">>

\* ========================================================================
\*                          PROPERTIES: CHAT SCREEN
\* ========================================================================

IsPrefix(a, b) == Len(a) <= Len(b) /\ SubSeq(b, 1, Len(a)) = a

\* The last k entries of s (all of s when it has fewer), in their order.
LastN(s, k) ==
    LET m == IF Len(s) < k THEN Len(s) ELSE k
    IN  [i \in 1..m |-> s[Len(s) - m + i]]

\* C2: the `history` of an outgoing request body of ChatBot.tsx has at most
\* ten entries and is the last min(10, n) entries of chatHistor_LLM, n its
\* length at that moment, in their original order.
C2_HistoryIsLastTen ==
    (mounted = "ChatBot" /\ lastCall.op = "requestInterceptor") =>
        LET history == lastCall.ret.body.history
            n == Len(chatHistor_LLM)
        IN  /\ Len(history) <= 10
            /\ Len(history) = (IF n < 10 THEN n ELSE 10)
            /\ \A i \in 1..Len(history) :
                  history[i] = chatHistor_LLM[n - Len(history) + i]
            /\ history = LastN(chatHistor_LLM, 10)

\* The eleventh entry has just been added by a request: the history sent
\* leaves out the oldest entry, and holds both roles and both messages.
C2_Witness ==
    /\ mounted = "ChatBot"
    /\ lastCall.op = "requestInterceptor"
    /\ Len(chatHistor_LLM) = 11
    /\ Len(lastCall.ret.body.history) = 10
    /\ chatHistor_LLM[1].content = "q1"
    /\ lastCall.ret.body.history[1] = [role |-> "user", content |-> "q2"]
    /\ lastCall.ret.body.history[2] = [role |-> "assistant", content |-> "a1"]
    /\ lastCall.ret.body.history[10] = [role |-> "user", content |-> "q1"]

\* C6: the transcript and the history only grow at the end: every interceptor
\* call keeps the entries there are, in place; a request adds a "user" entry
\* and a response an "ai" entry (transcript) or "assistant" entry (history).
C6_AppendOnly ==
    [][/\ IsPrefix(currentChatDetail, currentChatDetail')
       /\ IsPrefix(chatHistor_LLM, chatHistor_LLM')
       /\ Len(currentChatDetail') = Len(currentChatDetail) + 1
       /\ currentChatDetail'[Len(currentChatDetail')].role =
             (IF lastCall'.op = "requestInterceptor" THEN "user" ELSE "ai")
       /\ mounted = "ChatBot" =>
             /\ Len(chatHistor_LLM') = Len(chatHistor_LLM) + 1
             /\ chatHistor_LLM'[Len(chatHistor_LLM')].role =
                   (IF lastCall'.op = "requestInterceptor" THEN "user" ELSE "assistant")
       /\ mounted = "ChatBot_v1" => chatHistor_LLM' = chatHistor_LLM]_vars

\* Two request/response pairs have gone through ChatBot.tsx.
C6_Witness ==
    /\ mounted = "ChatBot"
    /\ Len(currentChatDetail) = 4
    /\ [i \in 1..4 |-> currentChatDetail[i].role] = <<"user", "ai", "user", "ai">>
    /\ [i \in 1..4 |-> chatHistor_LLM[i].role] =
          <<"user", "assistant", "user", "assistant">>
    /\ currentChatDetail[1].html = "q1"
    /\ currentChatDetail[3].html = "q2"

\* The response is { result: { raw: <a string> } }.
HasRawString(response) ==
    /\ response.has_result
    /\ response.result.t = "object"
    /\ response.result.raw.t = "string"

LastEntry(s) == s[Len(s)]

\* C7, as first stated: for the body { result: { raw: X } } the html returned
\* is exactly <div>X</div>, and that string is the new "ai" entry.
C7_Original ==
    (mounted = "ChatBot_v1" /\ lastCall.op = "responseInterceptor"
       /\ HasRawString(lastCall.arg)) =>
        /\ lastCall.ret.html = "<div>" \o lastCall.arg.result.raw.s \o "</div>"
        /\ LastEntry(currentChatDetail) = [role |-> "ai", html |-> lastCall.ret.html]

\* C7, amended: for the body { result: { raw: X } } the html returned is
\* <div>X</div> between the white space of the template literal (a line break
\* and twelve spaces before it, a line break and eight spaces after it), and
\* that string is the new "ai" entry of the transcript.
C7_DivInTemplateLayout ==
    (mounted = "ChatBot_v1" /\ lastCall.op = "responseInterceptor"
       /\ HasRawString(lastCall.arg)) =>
        /\ lastCall.ret.html =
              "\n            <div>" \o lastCall.arg.result.raw.s \o "</div>\n        "
        /\ lastCall.arg.result.raw.s = "X" =>
              lastCall.ret.html = "\n            <div>X</div>\n        "
        /\ LastEntry(currentChatDetail) = [role |-> "ai", html |-> lastCall.ret.html]

\* The response { result: { raw: "X" } } has come in after a question.
C7_Witness ==
    /\ mounted = "ChatBot_v1"
    /\ lastCall.op = "responseInterceptor"
    /\ lastCall.arg = [has_result |-> TRUE, result |-> Obj(Str("X"))]
    /\ Len(currentChatDetail) = 2
    /\ currentChatDetail[1].role = "user"
    /\ currentChatDetail[2].html = "\n            <div>X</div>\n        "

Fallback == "No result received from the server."

FalsyResult(response) ==
    /\ response.has_result
    /\ \/ response.result.t = "null"
       \/ response.result.t = "boolean" /\ response.result.b = FALSE
       \/ response.result.t = "number" /\ response.result.n = 0
       \/ response.result.t = "string" /\ response.result.s = ""

C9_HistoryIsPriorTurns ==
    [][(mounted = "ChatBot" /\ lastCall'.op = "requestInterceptor") =>
          /\ lastCall'.ret.body.content = lastCall'.arg.body.messages[1].text
          /\ lastCall'.ret.body.history = LastN(chatHistor_LLM, 10)]_vars

====
